---- MODULE Spec2Model ----
(***************************************************************************)
(* A model of the analytical core of the Fork plotting scripts:            *)
(*   scripts/plot_lc_branch.py   discover_lc_branches, extract_limit_cycle *)
(*   scripts/plot_limit_cycle.py reshape_state_vector, main                *)
(*   scripts/plot_clv_angles.py  orthonormal_basis, principal_angle_degrees,*)
(*                               compute_angles                            *)
(*   scripts/plot_clv.py         main                                      *)
(* Each script is a separate program, so each has a specification of its   *)
(* own over the shared variables; the variables a specification does not   *)
(* use keep their initial value.                                           *)
(***************************************************************************)
EXTENDS Integers, Sequences, FiniteSets, TLC

VARIABLES
    pc,        \* position in the script that is running
    data,      \* plot_lc_branch: the branch file (branchType, data.branch_type, len(points[0].state))
    ntst,      \* plot_lc_branch: local ntst of discover_lc_branches
    ncol,      \* plot_lc_branch: local ncol
    dim,       \* plot_lc_branch: local dim
    is_lc,     \* plot_lc_branch: local is_lc
    searched,  \* plot_lc_branch: history, whether a candidate search (lines 94-106 or 126-138) was run
    records,   \* plot_lc_branch: the list discover_lc_branches returns
    cycles,    \* plot_lc_branch: main's list of decoded cycles
    call,      \* a decoder call: its arguments
    result,    \* a decoder call: what it returned or raised
    points,    \* plot_limit_cycle: the branch's points, each by the length of its state
    index,     \* plot_limit_cycle: main's local index
    noise,     \* plot_clv_angles: the rounding error of the computed singular values
    idx,       \* plot_clv_angles: loop variable of compute_angles
    angles,    \* plot_clv_angles: local angles of compute_angles
    indices,   \* plot_clv: main's local indices, the selected checkpoints
    arrows,    \* plot_clv: number of ax.quiver calls made by main
    signals    \* how each failure that has happened was reported to the caller

branchVars == <<data, ntst, ncol, dim, is_lc, searched, records, cycles>>
callVars == <<call, result>>
mainVars == <<points, index>>
angleVars == <<noise, idx, angles>>
clvVars == <<indices, arrows>>
vars == <<pc, data, ntst, ncol, dim, is_lc, searched, records, cycles, call, result, points, index,
          noise, idx, angles, indices, arrows, signals>>

(***************************************************************************)
(* Bounds of the model.                                                    *)
(***************************************************************************)
\* Largest length of the first point's state in a branch file.
MaxBranchLen == 310
\* Largest arguments of a single decoder call.
MaxMesh == 3
MaxDegree == 2
MaxDim == 2
MaxStateLen == 20
\* Most points in a branch given to plot_limit_cycle, and their longest state.
MaxPoints == 3
MaxPointLen == 5
\* Largest shape of a matrix given to orthonormal_basis.
MaxRows == 3
MaxCols == 2
\* Most checkpoints in a covariant vector set.
MaxCheckpoints == 2
\* Largest --max-arrows, stride and number of checkpoints in the time window
\* of plot_clv.
MaxArrows == 4
MaxStride == 2
MaxWindow == 5

(***************************************************************************)
(* Helpers that stand for Python built-ins.                                *)
(***************************************************************************)
Min(a, b) == IF a < b THEN a ELSE b
Max(a, b) == IF a > b THEN a ELSE b

\* state[lo:hi] with 0-based, end-exclusive, clamped Python slice bounds.
Slice(s, lo, hi) == SubSeq(s, lo + 1, Min(hi, Len(s)))

\* np.array(flat).reshape(rows, cols), row-major.
Reshape(flat, rows, cols) ==
    [r \in 1..rows |-> [c \in 1..cols |-> flat[(r - 1) * cols + c]]]

\* The flat state of a continuation point: entry k carries its own 0-based
\* index plus a per-point offset, so a decoded value names the entry it was
\* read from.  The decoders only move entries, they never inspect them.
StateVector(len, offset) == [k \in 1..len |-> offset + k - 1]

(***************************************************************************)
(* plot_lc_branch.py: discover_lc_branches                                 *)
(***************************************************************************)
\* A variant of the dim candidates in increasing order, against which the
\* priority order is tested.
TestDimsIncreasing == <<2, 3, 4, 5>>

\* The literal candidate lists of the search at lines 94-96.
TestDims == <<3, 2, 4, 5>>
TestNcols == <<4, 3, 5>>
TestNtsts == <<20, 40, 10, 80, 30, 60>>

\* expected_len = test_ntst * test_dim * (test_ncol + 1) + 1
ExpectedLen(test_ntst, test_ncol, test_dim) ==
    test_ntst * test_dim * (test_ncol + 1) + 1

\* The innermost loop over test_ntst: the triple after the loop, which is
\* the first matching candidate (break) or the triple it started with.
RECURSIVE InnerLoop(_, _, _, _, _)
InnerLoop(k, t, test_dim, test_ncol, state_len) ==
    IF k > Len(TestNtsts) THEN t
    ELSE IF state_len = ExpectedLen(TestNtsts[k], test_ncol, test_dim)
         THEN [ntst |-> TestNtsts[k], ncol |-> test_ncol, dim |-> test_dim]
         ELSE InnerLoop(k + 1, t, test_dim, test_ncol, state_len)

\* The loop over test_ncol: after each inner loop, "if ntst > 0: break".
RECURSIVE NcolLoop(_, _, _, _)
NcolLoop(j, t, test_dim, state_len) ==
    IF j > Len(TestNcols) THEN t
    ELSE LET t2 == InnerLoop(1, t, test_dim, TestNcols[j], state_len)
         IN IF t2.ntst > 0 THEN t2 ELSE NcolLoop(j + 1, t2, test_dim, state_len)

\* The loop over test_dim: after each ncol loop, "if ntst > 0: break".
RECURSIVE DimLoop(_, _, _)
DimLoop(i, t, state_len) ==
    IF i > Len(TestDims) THEN t
    ELSE LET t2 == NcolLoop(1, t, TestDims[i], state_len)
         IN IF t2.ntst > 0 THEN t2 ELSE DimLoop(i + 1, t2, state_len)

\* Lines 90-111: the search of the branch taken when data.branch_type is
\* not a dict, with the default fallback.  Entered with ntst = ncol = dim = 0.
LegacySearch(t, state_len) ==
    IF state_len > 20
    THEN LET t2 == DimLoop(1, t, state_len)
         IN IF t2.ntst = 0
            THEN [ntst |-> 20, ncol |-> 4, dim |-> (state_len - 1) \div (20 * (4 + 1))]
            ELSE t2
    ELSE t

\* A variant of the second copy's dim candidates in increasing order, against
\* which the agreement of the two copies is tested.
InferTestDimsIncreasing == <<2, 3, 4, 5>>

\* The literal candidate lists of the second copy of the search, lines
\* 126-128.
InferTestDims == <<3, 2, 4, 5>>
InferTestNcols == <<4, 3, 5>>
InferTestNtsts == <<20, 40, 10, 80, 30, 60>>

\* Lines 128-134: the second copy's loop over test_ntst.
RECURSIVE InferInnerLoop(_, _, _, _, _)
InferInnerLoop(k, t, test_dim, test_ncol, state_len) ==
    IF k > Len(InferTestNtsts) THEN t
    ELSE IF state_len = ExpectedLen(InferTestNtsts[k], test_ncol, test_dim)
         THEN [ntst |-> InferTestNtsts[k], ncol |-> test_ncol, dim |-> test_dim]
         ELSE InferInnerLoop(k + 1, t, test_dim, test_ncol, state_len)

\* Lines 127-136: the second copy's loop over test_ncol, "if ntst > 0: break".
RECURSIVE InferNcolLoop(_, _, _, _)
InferNcolLoop(j, t, test_dim, state_len) ==
    IF j > Len(InferTestNcols) THEN t
    ELSE LET t2 == InferInnerLoop(1, t, test_dim, InferTestNcols[j], state_len)
         IN IF t2.ntst > 0 THEN t2 ELSE InferNcolLoop(j + 1, t2, test_dim, state_len)

\* Lines 126-138: the second copy's loop over test_dim, "if ntst > 0: break".
RECURSIVE InferDimLoop(_, _, _)
InferDimLoop(i, t, state_len) ==
    IF i > Len(InferTestDims) THEN t
    ELSE LET t2 == InferNcolLoop(1, t, InferTestDims[i], state_len)
         IN IF t2.ntst > 0 THEN t2 ELSE InferDimLoop(i + 1, t2, state_len)

\* Lines 124-146: the search run when ntst or ncol is still 0, with the
\* default fallback.  Entered with whatever ntst and ncol the metadata gave.
InferSearch(t, state_len) ==
    IF state_len > 20
    THEN LET t2 == InferDimLoop(1, t, state_len)
         IN IF t2.ntst = 0
            THEN [ntst |-> 20, ncol |-> 4,
                  dim |-> IF 20 * (4 + 1) > 0 THEN (state_len - 1) \div (20 * (4 + 1)) ELSE 0]
            ELSE t2
    ELSE t

\* Lines 148-153: dim from the length when ntst and ncol are known.
CalcDim(t, state_len) ==
    IF t.dim = 0 /\ t.ntst > 0 /\ t.ncol > 0
    THEN [t EXCEPT !.dim = IF t.ntst * (t.ncol + 1) > 0
                           THEN (state_len - 1) \div (t.ntst * (t.ncol + 1))
                           ELSE 0]
    ELSE t

(***************************************************************************)
(* plot_lc_branch.py: extract_limit_cycle                                  *)
(***************************************************************************)
\* A variant of the stage loop that restarts stage_idx at j for every
\* interval, against which the interleaving is tested.
StageLoopWithoutOffset(i, n_col, stage_data) ==
    [j \in 1..Max(0, Min(n_col, Len(stage_data) - i * n_col)) |-> stage_data[(j - 1) + 1]]

\* Lines 266-269: the stage rows appended for interval i.  stage_idx grows
\* with j, so the rows that pass "if stage_idx < len(stage_data)" are the
\* first Len(stage_data) - i*ncol of the ncol.
StageLoop(i, n_col, stage_data) ==
    [j \in 1..Max(0, Min(n_col, Len(stage_data) - i * n_col)) |->
        stage_data[i * n_col + (j - 1) + 1]]

\* A variant of the interval loop that appends the mesh rows only, against
\* which the shape of the interleaved profile is tested.
IntervalLoopMeshOnly(i, n, n_col, mesh_data, stage_data) ==
    [q \in 1..Max(0, n - i) |-> mesh_data[i + q]]

\* Lines 263-269: for i in range(n), mesh row i and then its stage rows.
RECURSIVE IntervalLoop(_, _, _, _, _)
IntervalLoop(i, n, n_col, mesh_data, stage_data) ==
    IF i >= n THEN <<>>
    ELSE (<<mesh_data[i + 1]>> \o StageLoop(i, n_col, stage_data))
         \o IntervalLoop(i + 1, n, n_col, mesh_data, stage_data)

\* extract_limit_cycle(state, ntst, ncol, dim): the returned array as a
\* sequence of rows; np.array([]) is the empty sequence.
extract_limit_cycle(state, n_tst, n_col, n_dim) ==
    LET num_stages == n_tst * n_col
        stage_data_len == num_stages * n_dim
        short == Len(state) < (n_tst + num_stages) * n_dim + 1
        mesh_points == IF short THEN n_tst + 1 ELSE n_tst
        mesh_data_len == mesh_points * n_dim
    IN IF Len(state) < mesh_data_len + 1 THEN <<>>
       ELSE LET mesh_data == Reshape(Slice(state, 0, mesh_data_len), mesh_points, n_dim)
                profile ==
                    IF Len(state) >= mesh_data_len + stage_data_len + 1
                    THEN LET stage_data ==
                                 Reshape(Slice(state, mesh_data_len, mesh_data_len + stage_data_len),
                                         num_stages, n_dim)
                             full_profile ==
                                 IntervalLoop(0, Min(n_tst, mesh_points), n_col,
                                              mesh_data, stage_data)
                         IN IF mesh_points > n_tst
                            THEN Append(full_profile, mesh_data[mesh_points])
                            ELSE full_profile
                    ELSE mesh_data
            IN \* np.vstack([profile, profile[0:1]])
               profile \o SubSeq(profile, 1, 1)

(***************************************************************************)
(* plot_limit_cycle.py: reshape_state_vector                               *)
(***************************************************************************)
\* Optional[int]: None, or an int.
None == [none |-> TRUE, v |-> 0]
Some(v) == [none |-> FALSE, v |-> v]

Raised(kind) == [raised |-> kind, rows |-> <<>>, period |-> 0]

\* reshape_state_vector(point_state, dim, mesh_points, degree).  All three
\* failures are ValueError: the two raise statements ("positive",
\* "insufficient") and numpy's own when state_vec[:base] cannot be given the
\* shape (mesh_points, dim) ("reshape").  The model takes degree >= -1, so
\* expected - 1 is never a negative index.
reshape_state_vector(point_state, n_dim, mesh_points, degree) ==
    LET base == mesh_points * n_dim
    IN IF base <= 0 THEN Raised("positive")
       ELSE LET remaining == Len(point_state) - base - 1
                inferred == remaining \div (mesh_points * n_dim)
                degree1 == IF (degree.none \/ degree.v <= 0) /\ remaining > 0 /\ inferred > 0
                           THEN Some(inferred)
                           ELSE degree
                \* degree = degree or 1
                degree2 == IF degree1.none \/ degree1.v = 0 THEN 1 ELSE degree1.v
                stage_block == mesh_points * degree2 * n_dim
                expected == base + stage_block + 1
            IN IF Len(point_state) < expected THEN Raised("insufficient")
               ELSE IF mesh_points < 0 \/ n_dim < 0 \/ Len(point_state) < base
                    THEN Raised("reshape")
                    ELSE [raised |-> "none",
                          rows |-> Reshape(Slice(point_state, 0, base), mesh_points, n_dim),
                          period |-> point_state[(expected - 1) + 1]]

(***************************************************************************)
(* plot_clv_angles.py: orthonormal_basis                                   *)
(*                                                                         *)
(* A matrix is [rows |-> m, cols |-> <<column, ...>>], a column a function  *)
(* from 1..m.  np.linalg.qr is LAPACK's Householder factorisation (geqrf    *)
(* and orgqr).  The model runs it on matrices whose columns each have at    *)
(* most one non-zero entry, a small integer: on these every reflector is    *)
(* the identity or a signed swap of two coordinates, and the floating-point *)
(* arithmetic is exact.                                                    *)
(***************************************************************************)
Abs(x) == IF x < 0 THEN -x ELSE x
Sign(x) == IF x < 0 THEN -1 ELSE 1

\* H applied to a vector y, for the reflector of x = c*e_p below row k
\* (alpha = 0, beta = -|c|, tau = 1, v = e_k + sign(c)*e_p).
Reflect(y, k, p, sgn) ==
    [i \in DOMAIN y |-> IF i = k THEN -sgn * y[p]
                        ELSE IF i = p THEN -sgn * y[k]
                        ELSE y[i]]

\* geqrf: column k is reduced by reflector k, which is the identity when the
\* column is already zero below row k (dlarfg: xnorm = 0, tau = 0).  a holds
\* R in its upper triangle, q accumulates H_1 H_2 ... (orgqr).
RECURSIVE Geqrf(_, _, _, _, _)
Geqrf(k, a, q, m, n) ==
    IF k > Min(m, n) THEN [a |-> a, q |-> q]
    ELSE LET below == {i \in (k + 1)..m : a[k][i] # 0}
         IN IF below = {} THEN Geqrf(k + 1, a, q, m, n)
            ELSE LET piv == CHOOSE i \in below : TRUE
                     sgn == Sign(a[k][piv])
                 IN Geqrf(k + 1,
                          [j \in 1..n |-> IF j < k THEN a[j] ELSE Reflect(a[j], k, piv, sgn)],
                          [j \in 1..m |-> IF j = k THEN [i \in 1..m |-> -sgn * q[piv][i]]
                                          ELSE IF j = piv THEN [i \in 1..m |-> -sgn * q[k][i]]
                                          ELSE q[j]],
                          m, n)

Identity(m) == [j \in 1..m |-> [i \in 1..m |-> IF i = j THEN 1 ELSE 0]]

\* np.linalg.qr(matrix, mode="reduced"): q is m x K, r is K x n, K = min(m, n);
\* r[i][j] is row i, column j of R.
qr(matrix) ==
    LET m == matrix.rows
        n == Len(matrix.cols)
        f == Geqrf(1, matrix.cols, Identity(m), m, n)
    IN [q |-> [j \in 1..Min(m, n) |-> f.q[j]],
        r |-> [i \in 1..Min(m, n) |-> [j \in 1..n |-> IF j >= i THEN f.a[j][i] ELSE 0]]]

\* np.finfo(float64).eps = 2^-52, as 1 / (SqrtEpsInverse * SqrtEpsInverse).
SqrtEpsInverse == 67108864

\* x > shape_max * eps * r_max for integers x, r_max >= 0.
ExceedsTol(x, shape_max, r_max) ==
    x > ((shape_max * r_max) \div SqrtEpsInverse) \div SqrtEpsInverse

SetMax(S) == CHOOSE x \in S : \A y \in S : y <= x

\* q[:, keep]: the columns of q whose flag is set, in order.
RECURSIVE Compress(_, _, _)
Compress(i, q, keep) ==
    IF i > Len(q) THEN <<>>
    ELSE (IF keep[i] THEN <<q[i]>> ELSE <<>>) \o Compress(i + 1, q, keep)

\* A variant of orthonormal_basis that returns the empty basis where the
\* original raises, against which the failure of the angle is tested.
orthonormal_basisWithoutRaise(matrix) ==
    IF Len(matrix.cols) = 0
    THEN [raised |-> "none", basis |-> <<>>]
    ELSE LET f == qr(matrix)
             K == Len(f.r)
             r_max == SetMax({Abs(f.r[i][j]) : i \in 1..K, j \in 1..Len(matrix.cols)})
             shape_max == Max(matrix.rows, Len(matrix.cols))
             keep == [i \in 1..K |-> ExceedsTol(Abs(f.r[i][i]), shape_max, r_max)]
         IN [raised |-> "none", basis |-> Compress(1, f.q, keep)]

\* orthonormal_basis(matrix): the kept columns of q, or the ValueError.
orthonormal_basis(matrix) ==
    IF Len(matrix.cols) = 0
    THEN [raised |-> "no_columns", basis |-> <<>>]
    ELSE LET f == qr(matrix)
             K == Len(f.r)
             r_max == SetMax({Abs(f.r[i][j]) : i \in 1..K, j \in 1..Len(matrix.cols)})
             shape_max == Max(matrix.rows, Len(matrix.cols))
             keep == [i \in 1..K |-> ExceedsTol(Abs(f.r[i][i]), shape_max, r_max)]
         IN IF \A i \in 1..K : ~keep[i]
            THEN [raised |-> "degenerate", basis |-> <<>>]
            ELSE [raised |-> "none", basis |-> Compress(1, f.q, keep)]

(***************************************************************************)
(* plot_clv_angles.py: principal_angle_degrees                             *)
(*                                                                         *)
(* A basis returned by orthonormal_basis on the matrices of the model is a *)
(* sequence of signed unit axis vectors on distinct axes, so the cross     *)
(* Gram matrix has entries 0, 1, -1 with at most one non-zero entry in a   *)
(* row or a column: its singular values are one 1 per non-zero entry and   *)
(* 0 for the rest.  Cosines are counted in halves (CosUnit to 1), where    *)
(* arccos is exact in degrees; the rounding error of the computed singular *)
(* values is the variable noise, in the same unit.                         *)
(***************************************************************************)
CosUnit == 2

RECURSIVE DotUpTo(_, _, _)
DotUpTo(u, v, p) == IF p = 0 THEN 0 ELSE u[p] * v[p] + DotUpTo(u, v, p - 1)

\* a.T @ b for two sequences of columns of m rows: gram[i][j] = a_i . b_j
MatMulT(a, b, m) == [i \in 1..Len(a) |-> [j \in 1..Len(b) |-> DotUpTo(a[i], b[j], m)]]

\* np.linalg.svd(gram, compute_uv=False): min(shape) values, largest first,
\* each with the rounding error.
svd(gram) ==
    LET k == Len(gram)
        l == IF k = 0 THEN 0 ELSE Len(gram[1])
        ones == Cardinality({<<i, j>> \in (1..k) \X (1..l) : gram[i][j] # 0})
    IN [i \in 1..Min(k, l) |-> (IF i <= ones THEN CosUnit ELSE 0) + noise]

\* A variant of np.clip without the upper limit, against which the range
\* of the angle is tested.
clipFromBelow(x, lo, hi) == Max(lo, x)

\* np.clip(x, lo, hi)
clip(x, lo, hi) == Max(lo, Min(x, hi))

\* math.degrees(math.acos(c)) for c in halves, -1 <= c/2 <= 1.
AcosDegrees(c) ==
    CASE c = 2 -> 0
      [] c = 1 -> 60
      [] c = 0 -> 90
      [] c = -1 -> 120
      [] c = -2 -> 180

\* principal_angle_degrees(cu, ss): the angle, or the ValueError of
\* orthonormal_basis, or the ValueError of math.acos outside [-1, 1].
principal_angle_degrees(cu, ss) ==
    LET cu_basis == orthonormal_basis(cu)
        ss_basis == orthonormal_basis(ss)
    IN IF cu_basis.raised # "none" THEN [raised |-> cu_basis.raised, angle |-> 0]
       ELSE IF ss_basis.raised # "none" THEN [raised |-> ss_basis.raised, angle |-> 0]
       ELSE LET gram == MatMulT(cu_basis.basis, ss_basis.basis, cu.rows)
                singular_values == svd(gram)
            IN IF Len(singular_values) = 0
               THEN [raised |-> "none", angle |-> 90]
               ELSE LET cos_theta ==
                            clip(SetMax({Abs(singular_values[i]) :
                                            i \in 1..Len(singular_values)}),
                                 -CosUnit, CosUnit)
                    IN IF cos_theta < -CosUnit \/ cos_theta > CosUnit
                       THEN [raised |-> "math_domain", angle |-> 0]
                       ELSE [raised |-> "none", angle |-> AcosDegrees(cos_theta)]

(***************************************************************************)
(* plot_clv_angles.py: compute_angles                                      *)
(*                                                                         *)
(* vectors[idx] is a sequence of dim vectors, the rows of the array; its   *)
(* transpose clv_matrix has them as columns.                               *)
(***************************************************************************)
\* clv_matrix[:, :e_cu_dim] and clv_matrix[:, e_cu_dim:]
cu_span(checkpoint, e_cu_dim) ==
    [rows |-> Len(checkpoint), cols |-> Slice(checkpoint, 0, e_cu_dim)]
ss_span(checkpoint, e_cu_dim) ==
    [rows |-> Len(checkpoint), cols |-> Slice(checkpoint, e_cu_dim, Len(checkpoint))]

(***************************************************************************)
(* Specification of plot_lc_branch.py: one branch file is discovered and   *)
(* the first point of the selected branch is decoded.                      *)
(***************************************************************************)
\* data.branch_type as the code distinguishes it: the key is missing (the
\* default {} is used), a dict { LimitCycle: {ntst, ncol} }, a dict
\* { type: 'LimitCycle', ntst, ncol }, some other dict, or not a dict.
BranchTypeKinds == {"missing", "LimitCycle_key", "type_LimitCycle", "other_dict", "not_dict"}

\* Metadata values of ntst and ncol; 0 is also what .get(..., 0) gives for
\* an absent field.
MetaNtst == {0, 10, 20}
MetaNcol == {0, 3, 4}

BranchTypes ==
    [kind : {"LimitCycle_key", "type_LimitCycle"}, ntst : MetaNtst, ncol : MetaNcol]
    \cup [kind : {"missing", "other_dict", "not_dict"}, ntst : {0}, ncol : {0}]

\* The top-level branchType: "limit_cycle", some other value, or no such
\* field (data.get gives None).
BranchFiles ==
    [branchType : {"limit_cycle", "other", "missing"},
     branch_type : BranchTypes,
     state_len : 0..MaxBranchLen]

NoCall == [mesh |-> 0, degree |-> [none |-> TRUE, v |-> 0], dim |-> 0, state_len |-> 0]
NoResult == [fn |-> "none"]

NoData == [branchType |-> "other",
           branch_type |-> [kind |-> "missing", ntst |-> 0, ncol |-> 0],
           state_len |-> 0]

InitBranch ==
    /\ pc = "parse"
    /\ data \in BranchFiles
    /\ ntst = 0 /\ ncol = 0 /\ dim = 0
    /\ is_lc = FALSE
    /\ searched = FALSE
    /\ records = <<>>
    /\ cycles = <<>>
    /\ call = NoCall /\ result = NoResult
    /\ points = <<>> /\ index = 0
    /\ noise = 0 /\ idx = 0 /\ angles = <<>>
    /\ indices = <<>> /\ arrows = 0
    /\ signals = {}

\* Lines 56-114: the branch type decides is_lc and the first ntst, ncol.
ParseBranchType ==
    /\ pc = "parse"
    /\ LET bt == data.branch_type
           has_info == bt.kind \in {"LimitCycle_key", "type_LimitCycle"}
           t0 == [ntst |-> 0, ncol |-> 0, dim |-> 0]
           t == IF data.branchType = "limit_cycle"
                THEN IF has_info THEN [t0 EXCEPT !.ntst = bt.ntst, !.ncol = bt.ncol] ELSE t0
                ELSE IF bt.kind # "not_dict"
                     THEN IF has_info THEN [t0 EXCEPT !.ntst = bt.ntst, !.ncol = bt.ncol] ELSE t0
                     ELSE LegacySearch(t0, data.state_len)
           lc == IF data.branchType = "limit_cycle" THEN TRUE
                 ELSE IF bt.kind # "not_dict" THEN has_info
                 ELSE data.state_len > 20
       IN /\ ntst' = t.ntst /\ ncol' = t.ncol /\ dim' = t.dim
          /\ is_lc' = lc
          /\ searched' = (data.branchType # "limit_cycle" /\ bt.kind = "not_dict"
                           /\ data.state_len > 20)
          /\ pc' = IF lc THEN "infer" ELSE "done"
    /\ UNCHANGED <<data, records, cycles, call, result, mainVars, angleVars, clvVars, signals>>

\* Lines 116-146.
InferFromStateSize ==
    /\ pc = "infer"
    /\ LET t0 == [ntst |-> ntst, ncol |-> ncol, dim |-> dim]
           t == IF ntst = 0 \/ ncol = 0 THEN InferSearch(t0, data.state_len) ELSE t0
       IN ntst' = t.ntst /\ ncol' = t.ncol /\ dim' = t.dim
    /\ searched' = (searched \/ ((ntst = 0 \/ ncol = 0) /\ data.state_len > 20))
    /\ pc' = "calc"
    /\ UNCHANGED <<data, is_lc, records, cycles, call,
                   result, mainVars, angleVars, clvVars, signals>>

\* Lines 148-153.
CalculateDim ==
    /\ pc = "calc"
    /\ LET t == CalcDim([ntst |-> ntst, ncol |-> ncol, dim |-> dim], data.state_len)
       IN ntst' = t.ntst /\ ncol' = t.ncol /\ dim' = t.dim
    /\ pc' = "append"
    /\ UNCHANGED <<data, is_lc, searched, records, cycles,
                   call, result, mainVars, angleVars, clvVars, signals>>

\* Lines 155-165.
AppendRecord ==
    /\ pc = "append"
    /\ records' = IF dim > 0
                  THEN Append(records, [ntst |-> ntst, ncol |-> ncol, dim |-> dim])
                  ELSE records
    /\ pc' = "plot"
    /\ UNCHANGED <<data, ntst, ncol, dim, is_lc, searched,
                   cycles, call, result, mainVars, angleVars, clvVars, signals>>

\* main, lines 302-353: the discovered record's layout decodes the branch's
\* first point; an empty array is not kept.
PlotBranch ==
    /\ pc = "plot"
    /\ cycles' = IF records = <<>> THEN cycles
                 ELSE LET rec == records[1]
                          cycle == extract_limit_cycle(StateVector(data.state_len, 0),
                                                       rec.ntst, rec.ncol, rec.dim)
                      IN IF Len(cycle) > 0 THEN Append(cycles, cycle) ELSE cycles
    /\ pc' = "done"
    /\ UNCHANGED <<data, ntst, ncol, dim, is_lc, searched,
                   records, call, result, mainVars, angleVars, clvVars, signals>>

NextBranch ==
    \/ ParseBranchType
    \/ InferFromStateSize
    \/ CalculateDim
    \/ AppendRecord
    \/ PlotBranch

SpecBranch == InitBranch /\ [][NextBranch]_vars

(***************************************************************************)
(* Specification of the two decoders as functions: one call of             *)
(* extract_limit_cycle or of reshape_state_vector on a bounded argument.   *)
(***************************************************************************)
Degrees == {None} \cup {Some(v) : v \in -1..MaxDegree}

Calls ==
    [mesh : -1..MaxMesh, degree : Degrees, dim : -1..MaxDim, state_len : 0..MaxStateLen]

InitDecode ==
    /\ pc = "call"
    /\ call \in Calls
    /\ result = NoResult
    /\ data = NoData
    /\ ntst = 0 /\ ncol = 0 /\ dim = 0
    /\ is_lc = FALSE /\ searched = FALSE
    /\ records = <<>> /\ cycles = <<>>
    /\ points = <<>> /\ index = 0
    /\ noise = 0 /\ idx = 0 /\ angles = <<>>
    /\ indices = <<>> /\ arrows = 0
    /\ signals = {}

\* extract_limit_cycle is only called with a discovered record's layout,
\* whose ntst, ncol and dim are positive.
CallExtractLimitCycle ==
    /\ pc = "call"
    /\ call.mesh >= 1 /\ call.dim >= 1 /\ ~call.degree.none /\ call.degree.v >= 1
    /\ result' = [fn |-> "extract_limit_cycle",
                  raised |-> "none",
                  rows |-> extract_limit_cycle(StateVector(call.state_len, 0),
                                               call.mesh, call.degree.v, call.dim)]
    /\ pc' = "returned"
    /\ UNCHANGED <<branchVars, call, mainVars, angleVars, clvVars, signals>>

CallReshapeStateVector ==
    /\ pc = "call"
    /\ LET r == reshape_state_vector(StateVector(call.state_len, 0),
                                     call.dim, call.mesh, call.degree)
       IN result' = [fn |-> "reshape_state_vector", raised |-> r.raised,
                     rows |-> r.rows, period |-> r.period]
    /\ pc' = "returned"
    /\ UNCHANGED <<branchVars, call, mainVars, angleVars, clvVars, signals>>

NextDecode ==
    \/ CallExtractLimitCycle
    \/ CallReshapeStateVector

SpecDecode == InitDecode /\ [][NextDecode]_vars

(***************************************************************************)
(* Specification of plot_limit_cycle.py: main decodes the selected point   *)
(* of a branch and, when that fails, salvages another point.               *)
(***************************************************************************)
\* mesh_points, degree and dim as main has them once the overrides, the
\* metadata and the prompts are read: ints, dim never 0.
MainMesh == {-1, 0, 1, 2}
MainDegree == {-1, 0, 1, 2}
MainDim == {-1, 1, 2}

\* The state of points[i] (0-based i): entries tagged with the point.
PointState(i) == StateVector(points[i + 1], 100 * i)

InitMain ==
    /\ pc = "main"
    /\ \E n \in 1..MaxPoints : points \in [1..n -> 0..MaxPointLen]
    /\ index \in 0..(Len(points) - 1)
    /\ \E m \in MainMesh, g \in MainDegree, d \in MainDim :
          call = [mesh |-> m, degree |-> Some(g), dim |-> d,
                  state_len |-> points[index + 1], index |-> index]
    /\ result = NoResult
    /\ data = NoData
    /\ ntst = 0 /\ ncol = 0 /\ dim = 0
    /\ is_lc = FALSE /\ searched = FALSE
    /\ records = <<>> /\ cycles = <<>>
    /\ noise = 0 /\ idx = 0 /\ angles = <<>>
    /\ indices = <<>> /\ arrows = 0
    /\ signals = {}

\* Lines 314-317: the selected point is decoded, or the ValueError caught.
MainReshape ==
    /\ pc = "main"
    /\ LET r == reshape_state_vector(PointState(index), call.dim, call.mesh, call.degree)
       IN /\ result' = [fn |-> "reshape_state_vector", raised |-> r.raised,
                        rows |-> r.rows, period |-> r.period]
          /\ pc' = IF r.raised = "none" THEN "report" ELSE "salvage"
    /\ UNCHANGED <<branchVars, call, points, index, angleVars, clvVars, signals>>

\* A variant of the salvage that takes the last point long enough for the
\* layout, against which the choice of the fallback is tested.
MainSalvageLastPoint ==
    /\ pc = "salvage"
    /\ LET stage_block == call.mesh * call.degree.v * call.dim
           expected_len == call.mesh * call.dim + stage_block + 1
           candidates == {cand \in 0..(Len(points) - 1) : points[cand + 1] >= expected_len}
       IN IF candidates = {}
          THEN /\ pc' = "raised"
               /\ UNCHANGED <<result, index>>
          ELSE LET fallback == CHOOSE cand \in candidates : \A other \in candidates : cand >= other
                   r == reshape_state_vector(PointState(fallback), call.dim, call.mesh,
                                             call.degree)
               IN /\ result' = [fn |-> "reshape_state_vector", raised |-> r.raised,
                                rows |-> r.rows, period |-> r.period]
                  /\ IF r.raised = "none"
                     THEN pc' = "report" /\ index' = fallback
                     ELSE pc' = "raised" /\ index' = index
    /\ UNCHANGED <<branchVars, call, points, angleVars, clvVars, signals>>

\* Lines 318-334: the first point long enough for the layout replaces the
\* selected one; a ValueError leaves main when there is none or when the
\* second reshape_state_vector raises.
MainSalvage ==
    /\ pc = "salvage"
    /\ LET stage_block == call.mesh * call.degree.v * call.dim
           expected_len == call.mesh * call.dim + stage_block + 1
           candidates == {cand \in 0..(Len(points) - 1) : points[cand + 1] >= expected_len}
       IN IF candidates = {}
          THEN /\ pc' = "raised"
               /\ UNCHANGED <<result, index>>
          ELSE LET fallback == CHOOSE cand \in candidates : \A other \in candidates : cand <= other
                   r == reshape_state_vector(PointState(fallback), call.dim, call.mesh,
                                             call.degree)
               IN /\ result' = [fn |-> "reshape_state_vector", raised |-> r.raised,
                                rows |-> r.rows, period |-> r.period]
                  /\ IF r.raised = "none"
                     THEN pc' = "report" /\ index' = fallback
                     ELSE pc' = "raised" /\ index' = index
    /\ UNCHANGED <<branchVars, call, points, angleVars, clvVars, signals>>

\* Lines 335-340 and plot_limit_cycle, lines 140-142: the decoded states are
\* plotted unless they have fewer than 2 variables.
MainPlot ==
    /\ pc = "report"
    /\ pc' = IF call.dim < 2 THEN "raised" ELSE "plotted"
    /\ UNCHANGED <<branchVars, call, result, points, index, angleVars, clvVars, signals>>

NextMain ==
    \/ MainReshape
    \/ MainSalvage
    \/ MainPlot

SpecMain == InitMain /\ [][NextMain]_vars

(***************************************************************************)
(* Specification of orthonormal_basis as a function: one call on a bounded *)
(* matrix.                                                                 *)
(***************************************************************************)
\* The non-zero entries a column may hold.
Entries == {-1, 1, 2}

AxisColumns(m) ==
    {[i \in 1..m |-> 0]}
    \cup {[i \in 1..m |-> IF i = piv THEN c ELSE 0] : piv \in 1..m, c \in Entries}

Matrices ==
    UNION {UNION {[rows : {m}, cols : [1..n -> AxisColumns(m)]] : n \in 0..MaxCols} :
           m \in 1..MaxRows}

InitBasis ==
    /\ pc = "call"
    /\ \E matrix \in Matrices : call = [matrix |-> matrix]
    /\ result = NoResult
    /\ data = NoData
    /\ ntst = 0 /\ ncol = 0 /\ dim = 0
    /\ is_lc = FALSE /\ searched = FALSE
    /\ records = <<>> /\ cycles = <<>>
    /\ points = <<>> /\ index = 0
    /\ noise = 0 /\ idx = 0 /\ angles = <<>>
    /\ indices = <<>> /\ arrows = 0
    /\ signals = {}

CallOrthonormalBasis ==
    /\ pc = "call"
    /\ LET b == orthonormal_basis(call.matrix)
       IN result' = [fn |-> "orthonormal_basis", raised |-> b.raised, basis |-> b.basis]
    /\ pc' = "returned"
    /\ UNCHANGED <<branchVars, call, mainVars, angleVars, clvVars, signals>>

NextBasis == CallOrthonormalBasis

SpecBasis == InitBasis /\ [][NextBasis]_vars

(***************************************************************************)
(* Specification of principal_angle_degrees as a function: one call on two *)
(* bounded matrices of the same number of rows.                            *)
(***************************************************************************)
\* The dimensions of the tangent space.
ClvDims == {2, 3}

\* The vectors a covariant vector set may hold: zero, e_1 and -e_2.
ClvVectors(d) ==
    {[i \in 1..d |-> 0],
     [i \in 1..d |-> IF i = 1 THEN 1 ELSE 0],
     [i \in 1..d |-> IF i = 2 THEN -1 ELSE 0]}

\* The rounding errors of a singular value, in halves.
Noise == {-1, 0, 1}

Spans(d) == UNION {[rows : {d}, cols : [1..n -> ClvVectors(d)]] : n \in 0..MaxCols}

InitAngle ==
    /\ pc = "call"
    /\ \E d \in ClvDims : \E cu \in Spans(d), ss \in Spans(d) : call = [cu |-> cu, ss |-> ss]
    /\ noise \in Noise
    /\ result = NoResult
    /\ data = NoData
    /\ ntst = 0 /\ ncol = 0 /\ dim = 0
    /\ is_lc = FALSE /\ searched = FALSE
    /\ records = <<>> /\ cycles = <<>>
    /\ points = <<>> /\ index = 0
    /\ idx = 0 /\ angles = <<>>
    /\ indices = <<>> /\ arrows = 0
    /\ signals = {}

CallPrincipalAngleDegrees ==
    /\ pc = "call"
    /\ LET a == principal_angle_degrees(call.cu, call.ss)
       IN result' = [fn |-> "principal_angle_degrees", raised |-> a.raised, angle |-> a.angle]
    /\ pc' = "returned"
    /\ UNCHANGED <<branchVars, call, mainVars, angleVars, clvVars, signals>>

NextAngle == CallPrincipalAngleDegrees

SpecAngle == InitAngle /\ [][NextAngle]_vars

(***************************************************************************)
(* Specification of compute_angles: the split is checked, then the loop    *)
(* takes one checkpoint at a time.  The record is of the documented shape: *)
(* every checkpoint holds dim vectors of dim components.                   *)
(***************************************************************************)
\* The values of e_cu_dim.
SplitSizes == {0, 1, 2, 3}

\* times[i] for the 0-based i; the values only tell the entries apart.
TimeOf(i) == 10 * i

CovariantVectorSets ==
    UNION {UNION {[dim : {d},
                   vectors : [1..n -> [1..d -> ClvVectors(d)]],
                   times : {[i \in 1..n |-> TimeOf(i - 1)]}] : n \in 1..MaxCheckpoints} :
           d \in ClvDims}

InitAngles ==
    /\ pc = "check"
    /\ \E cov_data \in CovariantVectorSets, e_cu_dim \in SplitSizes :
          call = [cov_data |-> cov_data, e_cu_dim |-> e_cu_dim]
    /\ noise \in Noise
    /\ idx = 0 /\ angles = <<>>
    /\ result = NoResult
    /\ data = NoData
    /\ ntst = 0 /\ ncol = 0 /\ dim = 0
    /\ is_lc = FALSE /\ searched = FALSE
    /\ records = <<>> /\ cycles = <<>>
    /\ points = <<>> /\ index = 0
    /\ indices = <<>> /\ arrows = 0
    /\ signals = {}

\* A variant of the check of the split that lets e_cu_dim = dim through,
\* against which the accepted range is tested.
CheckSplitUpToDim ==
    /\ pc = "check"
    /\ IF call.e_cu_dim <= 0 \/ call.e_cu_dim > call.cov_data.dim
       THEN /\ pc' = "raised"
            /\ result' = [fn |-> "compute_angles", raised |-> "split"]
       ELSE /\ pc' = "loop"
            /\ UNCHANGED result
    /\ UNCHANGED <<branchVars, call, mainVars, angleVars, clvVars, signals>>

\* Lines 130-131.
CheckSplit ==
    /\ pc = "check"
    /\ IF call.e_cu_dim <= 0 \/ call.e_cu_dim >= call.cov_data.dim
       THEN /\ pc' = "raised"
            /\ result' = [fn |-> "compute_angles", raised |-> "split"]
       ELSE /\ pc' = "loop"
            /\ UNCHANGED result
    /\ UNCHANGED <<branchVars, call, mainVars, angleVars, clvVars, signals>>

\* A variant of the loop body that passes over a checkpoint whose angle
\* cannot be computed, against which the series is tested.
AngleOfCheckpointOrSkip ==
    /\ pc = "loop"
    /\ idx < Len(call.cov_data.vectors)
    /\ LET cu == cu_span(call.cov_data.vectors[idx + 1], call.e_cu_dim)
           ss == ss_span(call.cov_data.vectors[idx + 1], call.e_cu_dim)
           a == principal_angle_degrees(cu, ss)
       IN /\ angles' = IF a.raised # "none" THEN angles ELSE Append(angles, a.angle)
          /\ idx' = idx + 1
          /\ UNCHANGED <<pc, result>>
    /\ UNCHANGED <<branchVars, call, mainVars, noise, clvVars, signals>>

\* Lines 134-143: one pass of the loop body.
AngleOfCheckpoint ==
    /\ pc = "loop"
    /\ idx < Len(call.cov_data.vectors)
    /\ LET cu == cu_span(call.cov_data.vectors[idx + 1], call.e_cu_dim)
           ss == ss_span(call.cov_data.vectors[idx + 1], call.e_cu_dim)
           a == principal_angle_degrees(cu, ss)
       IN IF Len(ss.cols) = 0
          THEN /\ pc' = "raised"
               /\ result' = [fn |-> "compute_angles", raised |-> "zero_stable"]
               /\ UNCHANGED <<idx, angles>>
          ELSE IF a.raised # "none"
               THEN /\ pc' = "raised"
                    /\ result' = [fn |-> "compute_angles", raised |-> a.raised]
                    /\ UNCHANGED <<idx, angles>>
               ELSE /\ angles' = Append(angles, a.angle)
                    /\ idx' = idx + 1
                    /\ UNCHANGED <<pc, result>>
    /\ UNCHANGED <<branchVars, call, mainVars, noise, clvVars, signals>>

\* Line 144: the loop is over.
ReturnAngles ==
    /\ pc = "loop"
    /\ idx >= Len(call.cov_data.vectors)
    /\ result' = [fn |-> "compute_angles", raised |-> "none",
                  times |-> Slice(call.cov_data.times, 0, Len(angles)),
                  angles |-> angles]
    /\ pc' = "returned"
    /\ UNCHANGED <<branchVars, call, mainVars, angleVars, clvVars, signals>>

NextAngles ==
    \/ CheckSplit
    \/ AngleOfCheckpoint
    \/ ReturnAngles

SpecAngles == InitAngles /\ [][NextAngles]_vars

(***************************************************************************)
(* Specification of plot_clv.py: main selects the checkpoints of the time  *)
(* window, clamps them to --max-arrows and draws one arrow for every       *)
(* selected checkpoint and vector that is not zero.                        *)
(***************************************************************************)
\* dim of the data set; main requires dim >= 3.
ClvPlotDim == 3

\* The runs of main: args.max_arrows, the stride, the number of checkpoints
\* whose time lies in the window, vector_indices (what ask_vector_indices
\* returns: a sorted set of indices below dim) and the vectors whose first
\* three components are zero at every checkpoint.
ClvPlots ==
    [max_arrows : 0..MaxArrows,
     stride : 1..MaxStride,
     in_window : 0..MaxWindow,
     vector_indices : SUBSET (0..(ClvPlotDim - 1)),
     zero_vectors : SUBSET (0..(ClvPlotDim - 1))]

InitClv ==
    /\ pc = "select"
    /\ call \in ClvPlots
    /\ indices = <<>> /\ arrows = 0
    /\ result = NoResult
    /\ data = NoData
    /\ ntst = 0 /\ ncol = 0 /\ dim = 0
    /\ is_lc = FALSE /\ searched = FALSE
    /\ records = <<>> /\ cycles = <<>>
    /\ points = <<>> /\ index = 0
    /\ noise = 0 /\ idx = 0 /\ angles = <<>>
    /\ signals = {}

\* Lines 189-198: np.flatnonzero(mask)[::stride], positions counted from the
\* first checkpoint of the window.
SelectCheckpoints ==
    /\ pc = "select"
    /\ IF call.vector_indices = {}
       THEN /\ pc' = "done"
            /\ UNCHANGED indices
       ELSE LET selected ==
                    [j \in 1..((call.in_window + call.stride - 1) \div call.stride) |->
                        (j - 1) * call.stride]
            IN /\ indices' = selected
               /\ pc' = IF Len(selected) = 0 THEN "raised" ELSE "clamp"
    /\ UNCHANGED <<branchVars, call, result, mainVars, angleVars, arrows, signals>>

\* Lines 200-205.
ClampArrows ==
    /\ pc = "clamp"
    /\ LET n_vectors == Cardinality(call.vector_indices)
       IN indices' = IF Len(indices) * n_vectors > call.max_arrows
                     THEN Slice(indices, 0, Max(1, call.max_arrows \div Max(1, n_vectors)))
                     ELSE indices
    /\ pc' = "draw"
    /\ UNCHANGED <<branchVars, call, result, mainVars, angleVars, arrows, signals>>

\* Lines 242-262: one ax.quiver for every selected checkpoint and vector
\* index, except for a vector of norm 0.
DrawArrows ==
    /\ pc = "draw"
    /\ arrows' = Len(indices) * Cardinality(call.vector_indices \ call.zero_vectors)
    /\ pc' = "done"
    /\ UNCHANGED <<branchVars, call, result, mainVars, angleVars, indices, signals>>

NextClv ==
    \/ SelectCheckpoints
    \/ ClampArrows
    \/ DrawArrows

SpecClv == InitClv /\ [][NextClv]_vars

(***************************************************************************)
(* Specification of the failures as a caller sees them: a caller gives the *)
(* components inputs on which they fail, in any order, and signals holds   *)
(* how each failure came back.                                             *)
(***************************************************************************)
\* The class of the exception behind every raise statement of the model:
\* plot_limit_cycle.py lines 110 and 123, numpy's reshape, plot_clv_angles.py
\* lines 103, 109, 131 and 141, math.acos.
ExceptionClass(raised) ==
    CASE raised \in {"positive", "insufficient", "reshape"} -> "ValueError"
      [] raised \in {"no_columns", "degenerate", "split", "zero_stable"} -> "ValueError"
      [] raised = "math_domain" -> "ValueError"
      [] raised = "none" -> "none"

\* The layouts and state lengths the caller tries.
ErrorCalls == [mesh : -1..1, degree : {Some(1), Some(2)}, dim : 0..2, state_len : 0..6]

\* The state lengths of the branch files the caller tries.
ErrorBranchLens == 21..30

Signal(failure, by, signal) == [failure |-> failure, by |-> by, signal |-> signal]

InitErrors ==
    /\ pc = "caller"
    /\ signals = {}
    /\ call = NoCall /\ result = NoResult
    /\ data = NoData
    /\ ntst = 0 /\ ncol = 0 /\ dim = 0
    /\ is_lc = FALSE /\ searched = FALSE
    /\ records = <<>> /\ cycles = <<>>
    /\ points = <<>> /\ index = 0
    /\ noise = 0 /\ idx = 0 /\ angles = <<>>
    /\ indices = <<>> /\ arrows = 0

\* reshape_state_vector with a layout that is not positive (lines 108-110).
FailInvalidLayout ==
    /\ pc = "caller"
    /\ \E c \in ErrorCalls :
          LET r == reshape_state_vector(StateVector(c.state_len, 0), c.dim, c.mesh, c.degree)
          IN /\ c.mesh * c.dim <= 0
             /\ call' = c
             /\ signals' = signals \cup
                   {Signal("InvalidLayout", "reshape_state_vector", ExceptionClass(r.raised))}
    /\ UNCHANGED <<pc, branchVars, result, mainVars, angleVars, clvVars>>

\* reshape_state_vector with a state shorter than the layout requires
\* (lines 120-126).
FailShortStateReshape ==
    /\ pc = "caller"
    /\ \E c \in ErrorCalls :
          LET r == reshape_state_vector(StateVector(c.state_len, 0), c.dim, c.mesh, c.degree)
          IN /\ c.mesh >= 1 /\ c.dim >= 1
             /\ c.state_len < c.mesh * c.dim + c.mesh * c.degree.v * c.dim + 1
             /\ call' = c
             /\ signals' = signals \cup
                   {Signal("ShortState", "reshape_state_vector", ExceptionClass(r.raised))}
    /\ UNCHANGED <<pc, branchVars, result, mainVars, angleVars, clvVars>>

\* extract_limit_cycle with a state shorter than the layout requires
\* (lines 245-252): it raises nothing and returns an array.
FailShortStateExtract ==
    /\ pc = "caller"
    /\ \E c \in ErrorCalls :
          /\ c.mesh >= 1 /\ c.dim >= 1
          /\ c.state_len < c.mesh * c.dim + c.mesh * c.degree.v * c.dim + 1
          /\ call' = c
          /\ signals' = signals \cup
                {Signal("ShortState", "extract_limit_cycle",
                        IF extract_limit_cycle(StateVector(c.state_len, 0),
                                               c.mesh, c.degree.v, c.dim) = <<>>
                        THEN "returned empty array" ELSE "returned profile")}
    /\ UNCHANGED <<pc, branchVars, result, mainVars, angleVars, clvVars>>

\* orthonormal_basis with a matrix of which it keeps no column (lines 102-109).
FailDegenerateSubspace ==
    /\ pc = "caller"
    /\ \E d \in ClvDims : \E matrix \in Spans(d) :
          LET b == orthonormal_basis(matrix)
          IN /\ b.raised # "none"
             /\ call' = [matrix |-> matrix]
             /\ signals' = signals \cup
                   {Signal("DegenerateSubspace", "orthonormal_basis", ExceptionClass(b.raised))}
    /\ UNCHANGED <<pc, branchVars, result, mainVars, angleVars, clvVars>>

\* discover_lc_branches with a limit-cycle branch file without mesh
\* information whose state length no candidate reproduces and for which the
\* default gives dim = 0 (lines 116-165): the branch is left out.
FailAmbiguousLayout ==
    /\ pc = "caller"
    /\ \E state_len \in ErrorBranchLens :
          LET t0 == [ntst |-> 0, ncol |-> 0, dim |-> 0]
              t == CalcDim(InferSearch(t0, state_len), state_len)
          IN /\ t.dim <= 0
             /\ call' = [state_len |-> state_len]
             /\ signals' = signals \cup
                   {Signal("AmbiguousLayout", "discover_lc_branches", "no record")}
    /\ UNCHANGED <<pc, branchVars, result, mainVars, angleVars, clvVars>>

NextErrors ==
    \/ FailInvalidLayout
    \/ FailShortStateReshape
    \/ FailShortStateExtract
    \/ FailDegenerateSubspace
    \/ FailAmbiguousLayout

SpecErrors == InitErrors /\ [][NextErrors]_vars

(***************************************************************************)
(* What the claims about the layout resolver speak of.                     *)
(***************************************************************************)
\* The documented priority order: dim outermost, then ncol, then ntst.
PriorityDims == <<3, 2, 4, 5>>
PriorityNcols == <<4, 3, 5>>
PriorityNtsts == <<20, 40, 10, 80, 30, 60>>

GridTriples ==
    {[ntst |-> PriorityNtsts[k], ncol |-> PriorityNcols[j], dim |-> PriorityDims[i]] :
        i \in 1..Len(PriorityDims), j \in 1..Len(PriorityNcols), k \in 1..Len(PriorityNtsts)}

PositionIn(s, x) == CHOOSE i \in 1..Len(s) : s[i] = x

\* The place of a grid triple in the nested order.
Rank(t) ==
    ((PositionIn(PriorityDims, t.dim) - 1) * Len(PriorityNcols)
        + (PositionIn(PriorityNcols, t.ncol) - 1)) * Len(PriorityNtsts)
    + PositionIn(PriorityNtsts, t.ntst)

\* L == ntst*dim + ntst*ncol*dim + 1
Reproduces(t, L) == L = t.ntst * t.dim + t.ntst * t.ncol * t.dim + 1

Matching(L) == {t \in GridTriples : Reproduces(t, L)}

Earliest(L) == CHOOSE t \in Matching(L) : \A u \in Matching(L) : Rank(t) <= Rank(u)

Triple == [ntst |-> ntst, ncol |-> ncol, dim |-> dim]

\* discover_lc_branches has finished with the branch file, having run a
\* candidate search on the way.
SearchWasRun == pc \in {"append", "plot", "done"} /\ is_lc /\ searched

\* The metadata names ntst and ncol.
HasMeshInfo == data.branch_type.kind \in {"LimitCycle_key", "type_LimitCycle"}

\* The resolver ran on a branch whose metadata gives neither ntst nor ncol.
ResolvedWithoutHint ==
    /\ pc = "done"
    /\ is_lc
    /\ ~HasMeshInfo \/ (data.branch_type.ntst = 0 /\ data.branch_type.ncol = 0)

\* C1: whenever a candidate search was run for a state length that some
\* grid triple reproduces, the resolved triple is the matching triple
\* earliest in the nested priority order.
C1_SearchReturnsEarliestMatch ==
    (SearchWasRun /\ Matching(data.state_len) # {})
    => Triple = Earliest(data.state_len)

\* C2: every record appended by discover_lc_branches reproduces the first
\* state's length exactly.
C2_RecordsReproduceLength ==
    \A r \in 1..Len(records) : Reproduces(records[r], data.state_len)

\* C7: with ntst > 0 and ncol > 0 from the metadata and no dim, a layout is
\* returned exactly when L-1 is a positive multiple of ntst*(ncol+1), and
\* its dim is that quotient.
C7_HintAcceptedOnlyIfExact ==
    (pc = "done" /\ is_lc /\ HasMeshInfo
        /\ data.branch_type.ntst > 0 /\ data.branch_type.ncol > 0)
    => LET per_dim == data.branch_type.ntst * (data.branch_type.ncol + 1)
           exact == data.state_len - 1 > 0 /\ (data.state_len - 1) % per_dim = 0
       IN IF exact
          THEN records = <<[ntst |-> data.branch_type.ntst,
                            ncol |-> data.branch_type.ncol,
                            dim |-> (data.state_len - 1) \div per_dim]>>
          ELSE records = <<>>

\* C8: whenever a candidate search was run and no grid triple reproduces
\* the state length, the resolver has fallen back to ntst = 20, ncol = 4 and
\* dim derived from the length; with L-1 < 100 no record is produced.
C8_FallbackWhenNoMatch ==
    (SearchWasRun /\ Matching(data.state_len) = {})
    => /\ Triple = [ntst |-> 20, ncol |-> 4, dim |-> (data.state_len - 1) \div 100]
       /\ (pc = "done" /\ data.state_len - 1 < 100) => records = <<>>
       /\ (pc = "done" /\ data.state_len - 1 >= 100) => records = <<Triple>>

\* The positive triples (ntst, ncol, dim) whose required length is L.
Divisors(n) == {d \in 1..n : n % d = 0}

Generating(L) ==
    UNION {{[ntst |-> a, ncol |-> q - 1, dim |-> (L - 1) \div (a * q)] :
                q \in {q \in Divisors((L - 1) \div a) : q >= 2}} :
           a \in Divisors(L - 1)}

\* The one decoded cycle has the shape of layout t: ntst + ntst*ncol points
\* before the closing one, each of dimension dim.
DecodedWithShape(t) ==
    /\ Len(cycles) = 1
    /\ Len(cycles[1]) - 1 = t.ntst + t.ntst * t.ncol
    /\ \A r \in 1..Len(cycles[1]) : Len(cycles[1][r]) = t.dim

Returned(fn) == pc = "returned" /\ result.fn = fn

\* The call names a layout: positive mesh count, degree and dimension.
IsLayout == call.mesh >= 1 /\ call.dim >= 1 /\ ~call.degree.none /\ call.degree.v >= 1

\* ntst*dim + ntst*ncol*dim + 1
RequiredLength == call.mesh * call.dim + call.mesh * call.degree.v * call.dim + 1

\* Entries [first, first + dim) of the flat state, as a point.
StoredPoint(first) == [c \in 1..call.dim |-> StateVector(call.state_len, 0)[first + c]]
MeshPoint(i) == StoredPoint(i * call.dim)
StagePoint(k) == StoredPoint(call.mesh * call.dim + k * call.dim)

\* C3: a decoder call on a layout and a state shorter than the layout
\* requires fails and returns no profile.  The empty array that
\* extract_limit_cycle returns, which its caller drops, counts as failing.
C3_ShortStateFails ==
    (pc = "returned" /\ IsLayout /\ call.state_len < RequiredLength)
    => (result.raised # "none" \/ result.rows = <<>>)

\* C4: for a state of at least the required length, the profile of
\* extract_limit_cycle before closing interleaves the two blocks: position
\* i*(ncol+1) is mesh point i, position i*(ncol+1)+1+j is stage point
\* i*ncol+j, and every stored point appears exactly once.
C4_Interleaved ==
    (Returned("extract_limit_cycle") /\ call.state_len >= RequiredLength)
    => LET n == call.mesh
           m == call.degree.v
           body == SubSeq(result.rows, 1, Len(result.rows) - 1)
       IN /\ Len(result.rows) >= 1
          /\ Len(body) = n + n * m
          /\ \A i \in 0..(n - 1) :
                /\ body[i * (m + 1) + 1] = MeshPoint(i)
                /\ \A j \in 0..(m - 1) : body[i * (m + 1) + 1 + j + 1] = StagePoint(i * m + j)
          /\ \A i \in 0..(n - 1) :
                Cardinality({q \in 1..Len(body) : body[q] = MeshPoint(i)}) = 1
          /\ \A k \in 0..(n * m - 1) :
                Cardinality({q \in 1..Len(body) : body[q] = StagePoint(k)}) = 1

\* A state longer than required was decoded into an interleaved profile of
\* several intervals with several stage points each.
C4_Witness ==
    /\ Returned("extract_limit_cycle")
    /\ call.mesh = 2 /\ call.degree.v = 2 /\ call.dim = 2
    /\ call.state_len = 14
    /\ result.rows = <<<<0, 1>>, <<4, 5>>, <<6, 7>>, <<2, 3>>, <<8, 9>>, <<10, 11>>, <<0, 1>>>>

\* C5: every profile a decoder returns is closed: its last point is an
\* appended copy of its first.  The empty array of extract_limit_cycle is
\* its failure signal and is not counted as a profile.
C5_ProfileClosed ==
    (pc = "returned" /\ IsLayout /\ result.raised = "none" /\ result.rows # <<>>)
    => /\ Len(result.rows) >= 2
       /\ result.rows[Len(result.rows)] = result.rows[1]

(***************************************************************************)
(* What the claims about plot_limit_cycle's main speak of.                 *)
(***************************************************************************)
\* main went on to report and plot the point it was asked for, decoded
\* with the layout it was given.
SelectedPointDecoded ==
    /\ pc \in {"report", "plotted"}
    /\ index = call.index
    /\ result.raised = "none"

\* C9: when mesh points, degree and dim are all supplied but the length
\* they imply differs from the state's, shorter or longer, the selected
\* point is not decoded with that layout.
C9_WrongLayoutNotTrusted ==
    (IsLayout /\ points # <<>> /\ RequiredLength # points[call.index + 1])
    => ~SelectedPointDecoded

(***************************************************************************)
(* What the claims about orthonormal_basis speak of.                       *)
(***************************************************************************)
InputCols == call.matrix.cols
RFactor == qr(call.matrix).r
QFactor == qr(call.matrix).q

\* max |R|
MaxAbsR == SetMax({Abs(RFactor[i][j]) : i \in 1..Len(RFactor), j \in 1..Len(InputCols)})

\* |R_ii| > max(shape) * eps * max|R|, with eps = 2^-52 = 2^-26 * 2^-26.
DiagonalExceedsTolerance(i) ==
    Abs(RFactor[i][i]) * (2 ^ 26)
        > (Max(call.matrix.rows, Len(InputCols)) * MaxAbsR) \div (2 ^ 26)

KeptDiagonals == {i \in 1..Len(RFactor) : DiagonalExceedsTolerance(i)}

NthSmallest(S, r) == CHOOSE x \in S : Cardinality({y \in S : y < x}) = r - 1

HasZeroColumn == \E j \in 1..Len(InputCols) : \A i \in 1..call.matrix.rows : InputCols[j][i] = 0
HasDuplicatedColumn ==
    \E j1, j2 \in 1..Len(InputCols) : j1 # j2 /\ InputCols[j1] = InputCols[j2]

HasNonZeroColumn ==
    \E j \in 1..Len(InputCols) : \E i \in 1..call.matrix.rows : InputCols[j][i] # 0

\* What orthonormal_basis does: it fails exactly when the input has no
\* columns or no diagonal entry of R exceeds the tolerance (the all-zero
\* matrix included); otherwise it returns exactly the Q columns whose
\* |R_ii| exceeds the tolerance, at least one and at most the input's column
\* count, fewer than that count when a column is zero or duplicated.
BasisFailsExactlyWhenNothingKept ==
    Returned("orthonormal_basis")
    => /\ (result.raised # "none") <=> (Len(InputCols) = 0 \/ KeptDiagonals = {})
       /\ (Len(InputCols) > 0 /\ MaxAbsR = 0) => result.raised # "none"
       /\ result.raised = "none"
            => /\ Len(result.basis) = Cardinality(KeptDiagonals)
               /\ \A r \in 1..Len(result.basis) :
                     result.basis[r] = QFactor[NthSmallest(KeptDiagonals, r)]
               /\ Len(result.basis) >= 1
               /\ Len(result.basis) <= Len(InputCols)
               /\ (HasZeroColumn \/ HasDuplicatedColumn)
                     => Len(result.basis) < Len(InputCols)

\* C10: orthonormal_basis fails exactly when the input has no columns or no
\* diagonal entry of R exceeds the tolerance, and otherwise returns the Q
\* columns whose |R_ii| exceeds it; so a zero or duplicated column only
\* reduces the basis size: an input with a non-zero column, whose columns
\* have not all collapsed, does not fail.
C10_ZeroColumnOnlyReducesBasis ==
    /\ BasisFailsExactlyWhenNothingKept
    /\ (Returned("orthonormal_basis") /\ HasNonZeroColumn) => result.raised = "none"

(***************************************************************************)
(* What the claims about principal_angle_degrees speak of.                 *)
(***************************************************************************)
\* The columns orthonormalization retains: the i with
\* |R_ii| > max(shape) * eps * max|R|, eps = 2^-26 * 2^-26.
Retained(matrix) ==
    IF Len(matrix.cols) = 0 THEN {}
    ELSE LET R == qr(matrix).r
             n == Len(matrix.cols)
             maxR == SetMax({Abs(R[i][j]) : i \in 1..Len(R), j \in 1..n})
         IN {i \in 1..Len(R) :
                Abs(R[i][i]) * (2 ^ 26) > (Max(matrix.rows, n) * maxR) \div (2 ^ 26)}

SomeBasisIsEmpty == Retained(call.cu) = {} \/ Retained(call.ss) = {}

\* C11 as stated: when one of the two bases has zero retained columns,
\* principal_angle_degrees returns 90 degrees.
C11_EmptyBasisGivesNinety ==
    (Returned("principal_angle_degrees") /\ SomeBasisIsEmpty)
    => (result.raised = "none" /\ result.angle = 90)

\* C11 amended: when one of the two bases has zero retained columns,
\* principal_angle_degrees raises the error of orthonormal_basis and returns
\* no angle; whenever it returns an angle both bases retain a column, so the
\* cross Gram matrix has a singular value.
C11_EmptyBasisRaises ==
    Returned("principal_angle_degrees")
    => /\ SomeBasisIsEmpty <=> result.raised \in {"no_columns", "degenerate"}
       /\ result.raised = "none"
            => Min(Cardinality(Retained(call.cu)), Cardinality(Retained(call.ss))) >= 1

\* C11 witness: the first block has columns but retains none of them, the
\* second retains one, and the call raised.
C11_Witness ==
    /\ Returned("principal_angle_degrees")
    /\ Len(call.cu.cols) > 0 /\ Retained(call.cu) = {}
    /\ Retained(call.ss) # {}
    /\ result.raised = "degenerate"

\* C12: every value principal_angle_degrees returns lies in [0, 90]; the
\* cosine given to arccos lies in [0, 1] whatever error the singular values
\* carry, so arccos never fails.
C12_AngleWithinQuarterTurn ==
    Returned("principal_angle_degrees")
    => /\ result.raised # "math_domain"
       /\ result.raised = "none" => (0 <= result.angle /\ result.angle <= 90)

\* C12 witness: two blocks that share an axis, a largest singular value
\* computed above 1, and the angle 0.
C12_Witness ==
    /\ Returned("principal_angle_degrees")
    /\ noise = 1
    /\ \E i \in 1..Len(call.cu.cols), j \in 1..Len(call.ss.cols) :
          call.cu.cols[i] = call.ss.cols[j] /\ \E p \in 1..call.cu.rows : call.cu.cols[i][p] # 0
    /\ result.raised = "none" /\ result.angle = 0

(***************************************************************************)
(* What the claims about compute_angles speak of.                          *)
(***************************************************************************)
Checkpoints == call.cov_data.vectors

\* The blocks of a checkpoint for the split k: its first k vectors and the
\* rest, as matrices with the vectors as columns.
LeadingBlock(c, k) == [rows |-> Len(c), cols |-> SubSeq(c, 1, k)]
TrailingBlock(c, k) == [rows |-> Len(c), cols |-> SubSeq(c, k + 1, Len(c))]

\* A block of the checkpoint retains no column.
IsDegenerate(c) ==
    \/ Retained(LeadingBlock(c, call.e_cu_dim)) = {}
    \/ Retained(TrailingBlock(c, call.e_cu_dim)) = {}

SplitAccepted == 0 < call.e_cu_dim /\ call.e_cu_dim < call.cov_data.dim

\* C13: compute_angles neither skips nor fabricates a point.  No angle is
\* ever recorded for or past a degenerate checkpoint, and with one the call
\* does not return; a call that ends by raising has no series; a series that
\* is returned has one entry for every checkpoint, entry i being times[i]
\* and the principal angle of the two blocks of checkpoint i.
C13_SeriesIsComplete ==
    (pc \in {"loop", "raised", "returned"} /\ SplitAccepted)
    => /\ \A i \in 1..Len(Checkpoints) :
             IsDegenerate(Checkpoints[i]) => (Len(angles) < i /\ pc # "returned")
       /\ pc = "raised" => result.raised # "none" /\ DOMAIN result = {"fn", "raised"}
       /\ pc = "returned"
            => /\ Len(result.times) = Len(Checkpoints)
               /\ Len(result.angles) = Len(Checkpoints)
               /\ \A i \in 1..Len(Checkpoints) :
                     /\ result.times[i] = call.cov_data.times[i]
                     /\ result.angles[i] =
                           principal_angle_degrees(
                               LeadingBlock(Checkpoints[i], call.e_cu_dim),
                               TrailingBlock(Checkpoints[i], call.e_cu_dim)).angle

\* C13 witness: the first checkpoint gave an angle, the second is
\* degenerate, and the call raised.
C13_Witness ==
    /\ pc = "raised" /\ SplitAccepted
    /\ Len(Checkpoints) = 2
    /\ ~IsDegenerate(Checkpoints[1]) /\ IsDegenerate(Checkpoints[2])
    /\ Len(angles) = 1
    /\ result.raised = "degenerate"

\* C14: a split outside 0 < k < dim raises before any angle is computed;
\* with an accepted split every checkpoint is cut into a leading block of
\* exactly k vectors and a trailing block of exactly dim - k, neither empty,
\* and the loop is entered with an accepted split only.
C14_SplitWithinDim ==
    pc # "check"
    => /\ ~SplitAccepted
            => (pc = "raised" /\ result.raised = "split" /\ angles = <<>> /\ idx = 0)
       /\ SplitAccepted
            => /\ result.fn = "compute_angles" => result.raised \notin {"split", "zero_stable"}
               /\ \A i \in 1..Len(Checkpoints) :
                     LET cu == cu_span(Checkpoints[i], call.e_cu_dim)
                         ss == ss_span(Checkpoints[i], call.e_cu_dim)
                     IN /\ cu.cols = SubSeq(Checkpoints[i], 1, call.e_cu_dim)
                        /\ Len(cu.cols) = call.e_cu_dim /\ Len(cu.cols) >= 1
                        /\ ss.cols = SubSeq(Checkpoints[i], call.e_cu_dim + 1, call.cov_data.dim)
                        /\ Len(ss.cols) = call.cov_data.dim - call.e_cu_dim /\ Len(ss.cols) >= 1

\* C14 witness: two checkpoints of dimension 3 were split 2 + 1 and the
\* series returned.
C14_Witness ==
    /\ pc = "returned"
    /\ call.cov_data.dim = 3 /\ call.e_cu_dim = 2
    /\ Len(result.angles) = 2

(***************************************************************************)
(* What the claim about the failure kinds speaks of.                       *)
(***************************************************************************)
IsException(signal) == signal \in {"ValueError"}

\* C15: the failure kinds are reported as distinct failures: two failures
\* of different kinds never come back as the same signal, and every failure
\* comes back as an exception, never as a returned value or as nothing.
C15_FailuresAreDistinct ==
    /\ \A a, b \in signals : a.failure # b.failure => a.signal # b.signal
    /\ \A a \in signals : IsException(a.signal)

(***************************************************************************)
(* What the claim about the arrows of plot_clv speaks of.                  *)
(***************************************************************************)
\* Selected checkpoints times selected vector indices.
ArrowsRequested == Len(indices) * Cardinality(call.vector_indices)

\* C16: for a positive --max-arrows and a non-empty selection, after the
\* clamp the number of selected checkpoints times the number of selected
\* vector indices, and so the number of arrows drawn, is at most max-arrows.
C16_ArrowsCapped ==
    (call.max_arrows > 0 /\ call.vector_indices # {} /\ pc \in {"draw", "done"})
    => (ArrowsRequested <= call.max_arrows /\ arrows <= call.max_arrows)

(***************************************************************************)
(* What the claims about incomplete branch metadata speak of.              *)
(***************************************************************************)
\* The metadata names exactly one of ntst and ncol.
PartialHint ==
    /\ HasMeshInfo
    /\ (data.branch_type.ntst > 0) # (data.branch_type.ncol > 0)

\* C17: when a limit-cycle record supplies only one of ntst and ncol and a
\* grid triple reproduces the state length, the resolver returns the
\* matching triple earliest in the priority order; the branch is not
\* dropped.
C17_PartialHintSearchesWholeGrid ==
    (pc = "done" /\ is_lc /\ PartialHint /\ Matching(data.state_len) # {})
    => records = <<Earliest(data.state_len)>>

\* C18: a record with neither a top-level branchType nor a data.branch_type
\* whose first state has more than 20 entries is detected as a limit-cycle
\* branch by its size, and the candidate search is run for it.
C18_BareRecordDetectedBySize ==
    (pc = "done" /\ data.branchType = "missing" /\ data.branch_type.kind = "missing"
        /\ data.state_len > 20)
    => (is_lc /\ searched)

(***************************************************************************)
(* What the claim about the period speaks of.                              *)
(***************************************************************************)
\* The final element of the flat state of the call.
FinalElement == StateVector(call.state_len, 0)[call.state_len]

\* C19: whenever reshape_state_vector succeeds on a positive mesh count and
\* dimension, with the degree given positive or left to be inferred, the
\* period it returns is the final element of the flat state.
C19_PeriodIsFinalElement ==
    (Returned("reshape_state_vector") /\ result.raised = "none"
        /\ call.mesh >= 1 /\ call.dim >= 1 /\ (call.degree.none \/ call.degree.v >= 1))
    => result.period = FinalElement

(***************************************************************************)
(* What the claim about the fallback point of main speaks of.              *)
(***************************************************************************)
\* Decoding the point that was asked for fails.
SelectedPointFails ==
    reshape_state_vector(PointState(call.index), call.dim, call.mesh, call.degree).raised
        # "none"

\* The points whose state has at least
\* mesh_points*dim + mesh_points*degree*dim + 1 entries, by 0-based index.
LongEnough ==
    {i \in 0..(Len(points) - 1) :
        points[i + 1] >= call.mesh * call.dim + call.mesh * call.degree.v * call.dim + 1}

Lowest(S) == CHOOSE i \in S : \A j \in S : i <= j

\* main is past the salvage.
Salvaged == pc \in {"report", "plotted", "raised"} /\ SelectedPointFails

\* After a failure and no point long enough a ValueError has left main; after
\* a failure and some point long enough, the lowest such point has been
\* decoded without an error and is the one reported.
FallbackIsLowestLongEnough ==
    IF LongEnough = {}
    THEN pc = "raised" /\ result.raised # "none"
    ELSE /\ result.raised = "none"
         /\ index = Lowest(LongEnough)
         /\ result.rows =
               reshape_state_vector(PointState(Lowest(LongEnough)),
                                    call.dim, call.mesh, call.degree).rows

\* C20 as stated: whenever decoding the selected point fails, the fallback
\* is the lowest-index point long enough, decoding it never raises and its
\* index is reported; with no such point a ValueError is raised and nothing
\* is plotted.
C20_FallbackAlwaysDecodes == Salvaged => FallbackIsLowestLongEnough

\* C20 amended: the same for a layout whose mesh points, degree and dim are
\* all positive; for any other layout the second decoding may raise, and
\* then too a ValueError leaves main and nothing is plotted.
C20_FallbackDecodesForPositiveLayout ==
    Salvaged
    => /\ IsLayout => FallbackIsLowestLongEnough
       /\ result.raised # "none" => pc = "raised"

\* C20 witness: the selected point is too short, two others are long
\* enough, and the one of lower index was decoded and is reported.
C20_Witness ==
    /\ Salvaged /\ IsLayout
    /\ Cardinality(LongEnough) = 2
    /\ Lowest(LongEnough) = 1
    /\ pc = "report" /\ index = 1 /\ result.raised = "none"

(***************************************************************************)
(* What the claim about non-positive layouts speaks of.                    *)
(***************************************************************************)
\* C21: every call of reshape_state_vector with mesh_points <= 0 or
\* dim <= 0, both negative included, raises the 'Mesh points and dimension
\* must be positive' error and returns no states or period.
C21_NonPositiveLayoutRejected ==
    (Returned("reshape_state_vector") /\ (call.mesh <= 0 \/ call.dim <= 0))
    => result.raised = "positive"

(***************************************************************************)
(* What the claim about the two copies of the search speaks of.            *)
(***************************************************************************)
\* The triple both paths are entered with.
ZeroTriple == [ntst |-> 0, ncol |-> 0, dim |-> 0]

\* The record took the legacy no-metadata path of lines 84-111.
OnLegacyPath ==
    /\ data.branchType # "limit_cycle"
    /\ data.branch_type.kind = "not_dict"
    /\ pc # "parse"

\* The record is a limit cycle branch that reached lines 116-146 with
\* ntst = ncol = dim = 0, and the search there has run.
OnMissingPath ==
    /\ data.branch_type.kind # "not_dict"
    /\ is_lc
    /\ HasMeshInfo => (data.branch_type.ntst = 0 /\ data.branch_type.ncol = 0)
    /\ pc = "calc"

\* C22: for every state length the legacy no-metadata path and the
\* missing-ntst/ncol path entered with (0, 0, 0) produce the same
\* (ntst, ncol, dim), and both leave (0, 0, 0) when the length is at most 20.
C22_CopiesAgree ==
    /\ OnLegacyPath =>
          /\ Triple = InferSearch(ZeroTriple, data.state_len)
          /\ data.state_len <= 20 => Triple = ZeroTriple
    /\ OnMissingPath =>
          /\ Triple = LegacySearch(ZeroTriple, data.state_len)
          /\ data.state_len <= 20 => Triple = ZeroTriple

\* C22 witness: a length that several grid triples reproduce has been
\* resolved on the missing-ntst/ncol path.
C22_Witness ==
    /\ OnMissingPath
    /\ data.state_len = 301
    /\ Triple = [ntst |-> 20, ncol |-> 4, dim |-> 3]
    /\ Triple = LegacySearch(ZeroTriple, 301)

(***************************************************************************)
(* What the claim about the shapes of the decoded profile speaks of.       *)
(***************************************************************************)
\* The two thresholds of the claim.
MeshOnlyLength == (call.mesh + 1) * call.dim + 1
InterleavedLength == call.mesh * call.dim * (call.degree.v + 1) + 1

\* The conditions under which line 272 would run: the ntst+1 fallback was
\* taken (line 245) and the stage block was still found (line 258).
FinalMeshPointAppended ==
    /\ call.state_len < InterleavedLength
    /\ call.state_len >= (call.mesh + 1) * call.dim
                          + call.mesh * call.degree.v * call.dim + 1

\* C23: for ntst, ncol, dim >= 1 extract_limit_cycle returns an empty array
\* (length below (ntst+1)*dim + 1), a closed mesh-only profile of ntst+2 rows
\* (length from there up to below ntst*dim*(ncol+1) + 1), or a closed
\* interleaved profile of ntst*(ncol+1) + 1 rows (length from there on); the
\* final mesh point is never appended to an interleaved profile.
C23_ThreeShapes ==
    Returned("extract_limit_cycle")
    => LET n == call.mesh
           m == call.degree.v
           rows == result.rows
       IN /\ call.state_len < MeshOnlyLength => rows = <<>>
          /\ (MeshOnlyLength <= call.state_len /\ call.state_len < InterleavedLength)
             => /\ Len(rows) = n + 2
                /\ \A i \in 0..n : rows[i + 1] = MeshPoint(i)
                /\ rows[n + 2] = rows[1]
          /\ call.state_len >= InterleavedLength
             => /\ Len(rows) = n * (m + 1) + 1
                /\ \A i \in 0..(n - 1) :
                      /\ rows[i * (m + 1) + 1] = MeshPoint(i)
                      /\ \A j \in 0..(m - 1) :
                            rows[i * (m + 1) + 1 + j + 1] = StagePoint(i * m + j)
                /\ rows[n * (m + 1) + 1] = rows[1]
          /\ ~FinalMeshPointAppended

\* C23 witness: a state between the two thresholds has been decoded to the
\* closed mesh-only profile.
C23_Witness ==
    /\ Returned("extract_limit_cycle")
    /\ call.mesh = 2 /\ call.degree.v = 2 /\ call.dim = 2
    /\ call.state_len = 9
    /\ MeshOnlyLength <= call.state_len /\ call.state_len < InterleavedLength
    /\ Len(result.rows) = 4
    /\ result.rows[4] = MeshPoint(0)

====
